---- MODULE Spec2Model ----
(***************************************************************************)
(* A state-machine model of cli.py, the CLI generator: the `new` and       *)
(* `deploy` commands acting on a filesystem, the import sniffer            *)
(* detect_imports, and the argument dispatch of the generated scripts.     *)
(*                                                                         *)
(* Text that the program case-converts (tool names, command names) is a    *)
(* sequence of one-character strings, so that str.title() and str.lower()  *)
(* are computed rather than assumed.                                       *)
(*                                                                         *)
(* Environment assumptions of the filesystem model: the configured roots   *)
(* (cwd, PAI_BIN_DIR, SCRIPTS_DIR) are writable directories; a path that   *)
(* the program uses as a file is never a directory, and dev.{name} is      *)
(* either absent or a directory.  Failures of the operating system other   *)
(* than those produced by the entries themselves (permissions, full disk)  *)
(* are not modelled.                                                       *)
(***************************************************************************)
EXTENDS Integers, Sequences, FiniteSets, TLC

(***************************************************************************)
(* Bounds of the model.                                                    *)
(***************************************************************************)
\* number of invocations of the program in one behaviour
MaxRuns == 1
\* number of import statements of a source given to the sniffer
MaxNodes == 2
\* number of arguments on the command line of a generated script
MaxArgs == 2
\* number of times a standalone `new` is given again after its first run
MaxRetries == 1

(***************************************************************************)
(* Text: str.lower() and str.title() over a small alphabet.                *)
(***************************************************************************)
LowerLetters == {"a", "b", "c", "d", "o", "r"}
UpperLetters == {"A", "B", "C", "D", "O", "R"}

LowerChar(ch) ==
    CASE ch = "A" -> "a" [] ch = "B" -> "b" [] ch = "C" -> "c"
      [] ch = "D" -> "d" [] ch = "O" -> "o" [] ch = "R" -> "r"
      [] OTHER -> ch

UpperChar(ch) ==
    CASE ch = "a" -> "A" [] ch = "b" -> "B" [] ch = "c" -> "C"
      [] ch = "d" -> "D" [] ch = "o" -> "O" [] ch = "r" -> "R"
      [] OTHER -> ch

IsCased(ch) == ch \in LowerLetters \cup UpperLetters

\* str.lower()
Lower(s) == [i \in 1..Len(s) |-> LowerChar(s[i])]

\* str.title(): a cased character is upper-cased when it follows an uncased
\* character (or starts the string) and lower-cased otherwise
Title(s) ==
    [i \in 1..Len(s) |->
        IF i = 1 \/ ~IsCased(s[i - 1]) THEN UpperChar(s[i]) ELSE LowerChar(s[i])]

(***************************************************************************)
(* Optional values (Python's None).                                        *)
(***************************************************************************)
None == [some |-> FALSE, val |-> <<>>]
Some(v) == [some |-> TRUE, val |-> v]
\* Python truthiness of an Optional[str]: None and "" are false
Truthy(opt) == opt.some /\ opt.val # <<>>

(***************************************************************************)
(* Inputs of the invocations.                                              *)
(***************************************************************************)
\* tool names: the second contains an upper-case letter, so that title()
\* and lower() change it
Names == {<<"a">>, <<"b", "C">>}
\* typer's default of --desc, and of desc in deploy
DEFAULT_DESCRIPTION == <<"A", "-", "t", "o", "o", "l">>
Descriptions == {DEFAULT_DESCRIPTION, <<"d", "2">>}
\* --default: absent, or the name of the default command
Run == <<"r">>
Doc == <<"d", "o", "c">>
Defaults == {None, Some(Run)}
\* --deps: absent, or the comma-separated items (an item that is empty
\* after strip() is the empty string)
DepsInputs == {None, Some(<<"httpx", "", "bs4">>)}

(***************************************************************************)
(* Paths.  SCRIPTS_DIR / f"dev.{name}" is the container directory; its     *)
(* children and the symlink SCRIPTS_DIR / name follow lines 624-638 and    *)
(* 752-754.                                                                *)
(***************************************************************************)
CwdPy(n) == [at |-> "cwd", n |-> n, leaf |-> ".py"]
CwdTxt(n) == [at |-> "cwd", n |-> n, leaf |-> ".txt"]
BinPy(n) == [at |-> "PAI_BIN_DIR", n |-> n, leaf |-> ".py"]
ToolDir(n) == [at |-> "SCRIPTS_DIR", n |-> n, leaf |-> "dev."]
Child(n, leaf) == [at |-> "dev.", n |-> n, leaf |-> leaf]
ToolPy(n) == Child(n, ".py")
SymlinkPath(n) == [at |-> "SCRIPTS_DIR", n |-> n, leaf |-> ""]
ChildLeaves == {"pyproject.toml", "README.md", ".git", ".gitignore", ".py"}

Paths ==
    UNION {{CwdPy(n), CwdTxt(n), BinPy(n), ToolDir(n), SymlinkPath(n)}
             \cup {Child(n, l) : l \in ChildLeaves} : n \in Names}

\* Path.suffix and Path.stem of the paths a deploy can be given
Suffix(p) == IF p.leaf \in {".py", ".txt"} THEN p.leaf ELSE ""
Stem(p) == p.n

(***************************************************************************)
(* Filesystem entries.                                                     *)
(***************************************************************************)
NoContent == [type |-> "none"]
Absent == [kind |-> "absent", content |-> NoContent, exec |-> FALSE, to |-> NoContent]
Dir == [kind |-> "dir", content |-> NoContent, exec |-> FALSE, to |-> NoContent]
File(c, x) == [kind |-> "file", content |-> c, exec |-> x, to |-> NoContent]
Symlink(q) == [kind |-> "link", content |-> NoContent, exec |-> FALSE, to |-> q]

\* Path.is_symlink()
IsSymlink(f, p) == f[p].kind = "link"
\* Path.exists(): follows a symbolic link, so a dangling link does not exist
Exists(f, p) ==
    CASE f[p].kind = "absent" -> FALSE
      [] f[p].kind = "link" -> f[f[p].to].kind # "absent"
      [] OTHER -> TRUE
\* the file a path names, through a symbolic link
Resolve(f, p) == IF f[p].kind = "link" THEN f[p].to ELSE p
\* Path.read_text()
ReadText(f, p) == f[Resolve(f, p)].content

\* the result of a filesystem call: the new filesystem, or an OSError
Ok(f) == [fs |-> f, err |-> FALSE]
Raise(f) == [fs |-> f, err |-> TRUE]

\* Path.mkdir(parents=True, exist_ok=True)
Mkdir(f, p) ==
    CASE f[p].kind = "absent" -> Ok([f EXCEPT ![p] = Dir])
      [] f[p].kind = "dir" -> Ok(f)
      [] OTHER -> Raise(f)

\* Path.write_text(c): creates the file, or replaces the content of the
\* existing file (its mode is kept); fails when the directory is missing
WriteText(f, p, c) ==
    LET q == Resolve(f, p) IN
    CASE q.at = "dev." /\ f[ToolDir(q.n)].kind # "dir" -> Raise(f)
      [] f[q].kind = "dir" -> Raise(f)
      [] f[q].kind = "file" -> Ok([f EXCEPT ![q] = File(c, f[q].exec)])
      [] OTHER -> Ok([f EXCEPT ![q] = File(c, FALSE)])

\* make_executable: stat, then chmod with the execute bits added
make_executable(f, p) ==
    LET q == Resolve(f, p) IN
    IF f[q].kind = "file"
    THEN Ok([f EXCEPT ![q] = File(f[q].content, TRUE)])
    ELSE Raise(f)

\* Path.unlink(): removes a file or a symbolic link (not what it points to)
Unlink(f, p) ==
    IF f[p].kind \in {"file", "link"} THEN Ok([f EXCEPT ![p] = Absent]) ELSE Raise(f)

\* Path.symlink_to(q): fails when anything is at the path
SymlinkTo(f, p, q) ==
    IF f[p].kind = "absent" THEN Ok([f EXCEPT ![p] = Symlink(q)]) ELSE Raise(f)

(***************************************************************************)
(* The generated script: the two skeletons, as what the rendered text      *)
(* holds and does.  `commands` are the functions registered with           *)
(* @app.command(), in order.                                               *)
(***************************************************************************)
ExampleCmd == <<"e", "x", "a", "m", "p", "l", "e">>
HelpLong == <<"-", "-", "h", "e", "l", "p">>
HelpShort == <<"-", "h">>

SKELETON(name, description) ==
    [type |-> "script", template |-> "SKELETON",
     name |-> name, name_lower |-> <<>>, description |-> description,
     default_cmd |-> <<>>, default_cmd_title |-> <<>>,
     no_args_is_help |-> TRUE, commands |-> <<ExampleCmd, Doc>>]

SKELETON_WITH_DEFAULT(name, name_lower, description, default_cmd, default_cmd_title) ==
    [type |-> "script", template |-> "SKELETON_WITH_DEFAULT",
     name |-> name, name_lower |-> name_lower, description |-> description,
     default_cmd |-> default_cmd, default_cmd_title |-> default_cmd_title,
     no_args_is_help |-> FALSE, commands |-> <<default_cmd, Doc>>]

\* create_cli_file's content
Render(name, description, default_cmd) ==
    IF Truthy(default_cmd)
    THEN SKELETON_WITH_DEFAULT(Title(name), Lower(name), description,
                               default_cmd.val, Title(default_cmd.val))
    ELSE SKELETON(Title(name), description)

\* sys.argv after the `if __name__ == "__main__":` block of the script, up
\* to the call of app(); argv[1] is the script's own name (Python's argv[0])
InsertAt2(argv, tok) == <<argv[1], tok>> \o SubSeq(argv, 2, Len(argv))

\* the dispatch rule without the help flags
MainNoOptions(script, argv) ==
    IF script.template = "SKELETON_WITH_DEFAULT"
    THEN LET commands == {script.commands[i] : i \in 1..Len(script.commands)}
         IN  CASE Len(argv) = 1 -> Append(argv, script.default_cmd)
               [] argv[2] \notin commands -> InsertAt2(argv, script.default_cmd)
               [] OTHER -> argv
    ELSE argv

Main(script, argv) ==
    IF script.template = "SKELETON_WITH_DEFAULT"
    THEN LET commands == {script.commands[i] : i \in 1..Len(script.commands)}
             options == {HelpLong, HelpShort}
         IN  CASE Len(argv) = 1 -> Append(argv, script.default_cmd)
               [] argv[2] \notin commands \cup options ->
                      InsertAt2(argv, script.default_cmd)
               [] OTHER -> argv
    ELSE argv

(***************************************************************************)
(* Python sources as the ast module sees them.  A dotted module name is    *)
(* the sequence of its components, so that name.split(".")[0] is Head.     *)
(***************************************************************************)
Import(names) == [node |-> "Import", names |-> names, module |-> None]
ImportFrom(module) == [node |-> "ImportFrom", names |-> <<>>, module |-> module]
OtherNode == [node |-> "Other", names |-> <<>>, module |-> None]

\* a file written by hand: whether it parses, the first line of its
\* docstring, and the import statements in its text
Source(ok, doc, imports) ==
    [type |-> "source", syntax_ok |-> ok, doc |-> doc, imports |-> imports]

\* the import statements of a rendered skeleton (lines 161-165, 209-213
\* and, with a default command, line 350)
SkeletonImports(script) ==
    << ImportFrom(Some(<<"rich">>)), ImportFrom(Some(<<"rich">>)),
       ImportFrom(Some(<<"rich">>)), ImportFrom(Some(<<"rich", "console">>)),
       Import(<< <<"typer">> >>), Import(<< <<"importlib">> >>),
       Import(<< <<"importlib", "util">> >>), Import(<< <<"sys">> >>),
       Import(<< <<"os">> >>), Import(<< <<"doc2md">> >>) >>
    \o (IF script.template = "SKELETON_WITH_DEFAULT"
        THEN << Import(<< <<"sys">> >>) >> ELSE <<>>)

\* ast.parse succeeds
SyntaxOk(c) == IF c.type = "source" THEN c.syntax_ok ELSE TRUE
\* the Import and ImportFrom nodes ast.walk yields
ImportNodes(c) == IF c.type = "source" THEN c.imports ELSE SkeletonImports(c)
\* ast.get_docstring(tree).strip().split("\n")[0], None without a docstring
DocFirstLine(c) == IF c.type = "source" THEN c.doc ELSE Some(c.name)

\* Standard library modules (the source's list)
STDLIB_MODULES == {
    "abc", "aifc", "argparse", "array", "ast", "asyncio", "atexit",
    "base64", "bdb", "binascii", "binhex", "bisect", "builtins", "bz2",
    "calendar", "cgi", "cgitb", "chunk", "cmath", "cmd", "code", "codecs",
    "codeop", "collections", "colorsys", "compileall", "concurrent",
    "configparser", "contextlib", "contextvars", "copy", "copyreg",
    "cProfile", "crypt", "csv", "ctypes", "curses", "dataclasses",
    "datetime", "dbm", "decimal", "difflib", "dis", "distutils", "doctest",
    "email", "encodings", "enum", "errno", "faulthandler", "fcntl",
    "filecmp", "fileinput", "fnmatch", "fractions", "ftplib", "functools",
    "gc", "getopt", "getpass", "gettext", "glob", "graphlib", "grp",
    "gzip", "hashlib", "heapq", "hmac", "html", "http", "imaplib",
    "imghdr", "imp", "importlib", "inspect", "io", "ipaddress",
    "itertools", "json", "keyword", "lib2to3", "linecache", "locale",
    "logging", "lzma", "mailbox", "mailcap", "marshal", "math",
    "mimetypes", "mmap", "modulefinder", "multiprocessing", "netrc", "nis",
    "nntplib", "numbers", "operator", "optparse", "os", "ossaudiodev",
    "pathlib", "pdb", "pickle", "pickletools", "pipes", "pkgutil",
    "platform", "plistlib", "poplib", "posix", "posixpath", "pprint",
    "profile", "pstats", "pty", "pwd", "py_compile", "pyclbr", "pydoc",
    "queue", "quopri", "random", "re", "readline", "reprlib", "resource",
    "rlcompleter", "runpy", "sched", "secrets", "select", "selectors",
    "shelve", "shlex", "shutil", "signal", "site", "smtpd", "smtplib",
    "sndhdr", "socket", "socketserver", "spwd", "sqlite3", "ssl", "stat",
    "statistics", "string", "stringprep", "struct", "subprocess", "sunau",
    "symtable", "sys", "sysconfig", "syslog", "tabnanny", "tarfile",
    "telnetlib", "tempfile", "termios", "test", "textwrap", "threading",
    "time", "timeit", "tkinter", "token", "tokenize", "trace", "traceback",
    "tracemalloc", "tty", "turtle", "turtledemo", "types", "typing",
    "unicodedata", "unittest", "urllib", "uu", "uuid", "venv", "warnings",
    "wave", "weakref", "webbrowser", "winreg", "winsound", "wsgiref",
    "xdrlib", "xml", "xmlrpc", "zipapp", "zipfile", "zipimport", "zlib",
    "_thread"}

\* Base dependencies already in the manifest template
BASE_DEPS == {"typer", "rich", "doc2md"}

RECURSIVE AliasTops(_)
\* the top-level modules of the aliases of one Import node (lines 545-548)
AliasTops(names) ==
    IF names = <<>> THEN {}
    ELSE {Head(Head(names))} \cup AliasTops(Tail(names))

RECURSIVE WalkImports(_)
\* the `imports` set built by the loop over ast.walk(tree) (lines 542-552)
WalkImports(nodes) ==
    IF nodes = <<>> THEN {}
    ELSE LET node == Head(nodes)
             here == CASE node.node = "Import" -> AliasTops(node.names)
                       [] node.node = "ImportFrom" ->
                              IF Truthy(node.module) THEN {Head(node.module.val)} ELSE {}
                       [] OTHER -> {}
         IN  here \cup WalkImports(Tail(nodes))

\* detect_imports without the base-dependency filter
DetectKeepBase(c) ==
    IF ~SyntaxOk(c) THEN {} ELSE WalkImports(ImportNodes(c)) \ STDLIB_MODULES

\* detect_imports on a file of content c
detect_imports(c) ==
    IF ~SyntaxOk(c) THEN {}
    ELSE (WalkImports(ImportNodes(c)) \ STDLIB_MODULES) \ BASE_DEPS

(***************************************************************************)
(* The manifest and the README.                                            *)
(***************************************************************************)
\* sorted() of a set of module names: the model's module names in
\* alphabetical order
Alphabetical ==
    <<"bs4", "doc2md", "httpx", "numpy", "os", "rich", "sys", "typer", "xml">>
Sorted(S) == SelectSeq(Alphabetical, LAMBDA m : m \in S)

NonEmpty(item) == item # ""

\* generate_pyproject: the template's three dependencies, then every
\* non-empty item of extra_deps
generate_pyproject(name, description, extra_deps) ==
    [type |-> "pyproject.toml", name |-> name, description |-> description,
     dependencies |-> <<"typer>=0.15.0", "rich>=13.7.1", "doc2md>=0.1.0">>
        \o (IF extra_deps.some /\ extra_deps.val # <<>>
            THEN SelectSeq(extra_deps.val, NonEmpty) ELSE <<>>)]

README_TEMPLATE(name, description) ==
    [type |-> "README_TEMPLATE", name |-> name, description |-> description]
\* f"# {tool_name}\n\nDeployed CLI tool.\n"
MinimalReadme(name) == [type |-> "README minimal", name |-> name]
\* the standard output of `python target doc`
DocOutput(c) == [type |-> "README doc", of |-> c]
GITIGNORE_TEMPLATE == [type |-> "GITIGNORE_TEMPLATE"]

(***************************************************************************)
(* State.                                                                  *)
(***************************************************************************)
VARIABLES
    fs,      \* the filesystem: Paths -> entry
    pc,      \* per invocation slot: the statement it is at
    args,    \* per invocation slot: the command line
    exit,    \* per invocation slot: how the process ended
    loc,     \* per invocation slot: local variables and subprocess results
    fs0,     \* per invocation slot: the filesystem when it started
    runs,    \* invocations started so far
    probe,   \* input of the pure function under check
    answer   \* its result

vars == <<fs, pc, args, exit, loc, fs0, runs, probe, answer>>

\* invocation slots; the sequential specification uses the first only
Procs == {1, 2}
Sequential == {1}

NoArgs ==
    [cmd |-> "none", name |-> <<>>, description |-> <<>>, default |-> None,
     deps |-> None, pai |-> FALSE, standalone |-> FALSE, force |-> FALSE,
     file |-> NoContent, name_opt |-> None, move |-> FALSE]

NewArgs(name, description, default, deps, pai, standalone, force) ==
    [NoArgs EXCEPT !.cmd = "new", !.name = name, !.description = description,
                   !.default = default, !.deps = deps, !.pai = pai,
                   !.standalone = standalone, !.force = force]

DeployArgs(file, name_opt, move, force) ==
    [NoArgs EXCEPT !.cmd = "deploy", !.file = file, !.name_opt = name_opt,
                   !.move = move, !.force = force]

NoLocals ==
    [file |-> NoContent, git |-> "none", doc |-> "none", detected_deps |-> {},
     desc |-> <<>>]

\* outcomes of subprocess.run(["git", "init"], ...): exit status 0, a
\* non-zero exit status, or FileNotFoundError when there is no git binary
GitOutcomes == {"ok", "nonzero", "missing"}
\* outcomes of subprocess.run(["python", target, "doc"], ...): output on
\* exit status 0, a non-zero exit status, exit status 0 with blank output,
\* or an exception when python cannot be started
DocOutcomes == {"ok", "nonzero", "blank", "missing"}

(***************************************************************************)
(* Starting states: the filesystem an invocation may find.  Between them   *)
(* the three layouts hold, for some tool name, every kind of prior entry    *)
(* the commands test for: a hand-written script that parses and one that   *)
(* does not, a file of another type, an occupied target in each tier, an   *)
(* empty, a partial and a complete container directory, and a symlink      *)
(* path that is free, a regular file, a live symlink (to the target, or    *)
(* elsewhere) or a dangling one.                                           *)
(***************************************************************************)
NameA == <<"a">>
NameB == <<"b", "C">>
OldDescription == <<"o", "l", "d">>

SrcGood ==
    Source(TRUE, Some(<<"d", "3">>),
           << Import(<< <<"os">> >>), Import(<< <<"httpx">> >>),
              ImportFrom(Some(<<"bs4">>)) >>)
SrcBroken == Source(FALSE, None, << Import(<< <<"httpx">> >>) >>)
OldText == Source(TRUE, None, <<>>)

EmptyFs == [p \in Paths |-> Absent]

\* hand-written files in the current directory, an occupied PAI target,
\* a symlink path taken by a regular file, an empty container, and a
\* symlink to a file that is gone (a dangling symlink)
UserFilesFs ==
    [EmptyFs EXCEPT ![CwdPy(NameA)] = File(SrcGood, FALSE),
                    ![CwdPy(NameB)] = File(SrcBroken, FALSE),
                    ![CwdTxt(NameA)] = File(OldText, FALSE),
                    ![BinPy(NameA)] = File(OldText, TRUE),
                    ![SymlinkPath(NameA)] = File(OldText, FALSE),
                    ![ToolDir(NameB)] = Dir,
                    ![SymlinkPath(NameB)] = Symlink(CwdTxt(NameB))]

\* a tool deployed earlier, a container left without its script, and a
\* symlink that points out of the scripts directory
DeployedFs ==
    [EmptyFs EXCEPT ![ToolDir(NameA)] = Dir,
                    ![Child(NameA, "pyproject.toml")] =
                        File(generate_pyproject(NameA, OldDescription, None), FALSE),
                    ![Child(NameA, "README.md")] =
                        File(README_TEMPLATE(NameA, OldDescription), FALSE),
                    ![Child(NameA, ".git")] = Dir,
                    ![Child(NameA, ".gitignore")] = File(GITIGNORE_TEMPLATE, FALSE),
                    ![ToolPy(NameA)] = File(SrcGood, TRUE),
                    ![SymlinkPath(NameA)] = Symlink(ToolPy(NameA)),
                    ![ToolDir(NameB)] = Dir,
                    ![Child(NameB, "pyproject.toml")] =
                        File(generate_pyproject(NameB, OldDescription, None), FALSE),
                    ![Child(NameB, "README.md")] =
                        File(README_TEMPLATE(NameB, OldDescription), FALSE),
                    ![CwdPy(NameA)] = File(Render(NameA, OldDescription, None), TRUE),
                    ![SymlinkPath(NameB)] = Symlink(CwdPy(NameA))]

InitFs == {EmptyFs, UserFilesFs, DeployedFs}

Init ==
    /\ fs \in InitFs
    /\ pc = [p \in Procs |-> "idle"]
    /\ args = [p \in Procs |-> NoArgs]
    /\ exit = [p \in Procs |-> "none"]
    /\ loc = [p \in Procs |-> NoLocals]
    /\ fs0 = [p \in Procs |-> EmptyFs]
    /\ runs = 0
    /\ probe = NoContent
    /\ answer = NoContent

(***************************************************************************)
(* Control flow shared by the statements.                                  *)
(***************************************************************************)
\* raise typer.Exit(code=1) after the message `why`
Fail(p, why) ==
    /\ pc' = [pc EXCEPT ![p] = "done"]
    /\ exit' = [exit EXCEPT ![p] = why]

Goto(p, label) ==
    /\ pc' = [pc EXCEPT ![p] = label]
    /\ UNCHANGED exit

\* the command returns: exit status 0
Return(p) ==
    /\ pc' = [pc EXCEPT ![p] = "done"]
    /\ exit' = [exit EXCEPT ![p] = "ok"]

\* a filesystem call that undoes the invocation's writes when it raises
DoOrRollBack(p, r, label) ==
    /\ fs' = IF r.err THEN fs0[p] ELSE r.fs
    /\ IF r.err THEN Fail(p, "crash") ELSE Goto(p, label)

\* a filesystem call: its effect, and the uncaught exception if it raised
Do(p, r, label) ==
    /\ fs' = r.fs
    /\ IF r.err THEN Fail(p, "crash") ELSE Goto(p, label)

Idle(p) == pc[p] \in {"idle", "done"}

\* a new process starts in slot p with command line a
Launch(p, a, label) ==
    /\ Idle(p)
    /\ runs' = runs + 1
    /\ args' = [args EXCEPT ![p] = a]
    /\ pc' = [pc EXCEPT ![p] = label]
    /\ exit' = [exit EXCEPT ![p] = "none"]
    /\ loc' = [loc EXCEPT ![p] = NoLocals]
    /\ fs0' = [fs0 EXCEPT ![p] = fs]
    /\ UNCHANGED <<fs, probe, answer>>

\* one of the MaxRuns invocations of a behaviour
Begin(p, a, label) == runs < MaxRuns /\ Launch(p, a, label)

(***************************************************************************)
(* new (lines 578-705).                                                    *)
(***************************************************************************)
\* lines 624-638: the paths of the three tiers
tool_dir(a) == ToolDir(a.name)
target(a) ==
    CASE a.standalone -> ToolPy(a.name)
      [] a.pai -> BinPy(a.name)
      [] OTHER -> CwdPy(a.name)
symlink(a) == SymlinkPath(a.name)

\* a conflict test that never fires
ConflictingNever(a) == FALSE

\* line 619: if pai and standalone
Conflicting(a) == a.pai /\ a.standalone

\* an existence test that sees regular files only
MustNotOverwriteFiles(f, path, force) == f[path].kind = "file" /\ ~force

\* lines 641, 647 and 757: if <path>.exists() and not force
MustNotOverwrite(f, path, force) == Exists(f, path) /\ ~force

NewStart(p) ==
    \E name \in Names, description \in Descriptions, default \in Defaults,
       pai \in BOOLEAN, standalone \in BOOLEAN, force \in BOOLEAN :
      \* --deps is read by the standalone tier only
      \E deps \in IF standalone THEN DepsInputs ELSE {None} :
        Begin(p, NewArgs(name, description, default, deps, pai, standalone, force),
              "new_619")

\* if pai and standalone: ... raise typer.Exit(code=1)
NewConflict(p) ==
    /\ pc[p] = "new_619"
    /\ IF Conflicting(args[p])
       THEN Fail(p, "ConflictingMode")
       ELSE Goto(p, "new_641")
    /\ UNCHANGED <<fs, args, loc, fs0, runs, probe, answer>>

\* if target.exists() and not force
NewCheckTarget(p) ==
    /\ pc[p] = "new_641"
    /\ IF MustNotOverwrite(fs, target(args[p]), args[p].force)
       THEN Fail(p, "AlreadyExists")
       ELSE Goto(p, IF args[p].standalone THEN "new_647" ELSE "new_671")
    /\ UNCHANGED <<fs, args, loc, fs0, runs, probe, answer>>

\* the container check left out
NewCheckDirSkipped(p) ==
    /\ pc[p] = "new_647"
    /\ Goto(p, "new_651")
    /\ UNCHANGED <<fs, args, loc, fs0, runs, probe, answer>>

\* if tool_dir.exists() and not force
NewCheckDir(p) ==
    /\ pc[p] = "new_647"
    /\ IF MustNotOverwrite(fs, tool_dir(args[p]), args[p].force)
       THEN Fail(p, "AlreadyExists")
       ELSE Goto(p, "new_651")
    /\ UNCHANGED <<fs, args, loc, fs0, runs, probe, answer>>

\* tool_dir.mkdir(parents=True, exist_ok=True)
NewMkdir(p) ==
    /\ pc[p] = "new_651"
    /\ Do(p, Mkdir(fs, tool_dir(args[p])), "new_654")
    /\ UNCHANGED <<args, loc, fs0, runs, probe, answer>>

\* (tool_dir / "pyproject.toml").write_text(generate_pyproject(...))
NewManifest(p) ==
    /\ pc[p] = "new_654"
    /\ Do(p, WriteText(fs, Child(args[p].name, "pyproject.toml"),
                       generate_pyproject(args[p].name, args[p].description,
                                          args[p].deps)),
          "new_659")
    /\ UNCHANGED <<args, loc, fs0, runs, probe, answer>>

\* (tool_dir / "README.md").write_text(README_TEMPLATE.format(...))
NewReadme(p) ==
    /\ pc[p] = "new_659"
    /\ Do(p, WriteText(fs, Child(args[p].name, "README.md"),
                       README_TEMPLATE(args[p].name, args[p].description)),
          "new_663")
    /\ UNCHANGED <<args, loc, fs0, runs, probe, answer>>

\* subprocess.run(["git", "init"], cwd=d, capture_output=True): the exit
\* status is not looked at; an exception of run() is not caught
GitInit(f, d, outcome) ==
    CASE outcome = "missing" -> Raise(f)
      [] f[d].kind # "dir" -> Raise(f)
      [] outcome = "ok" -> Ok([f EXCEPT ![Child(d.n, ".git")] = Dir])
      [] OTHER -> Ok(f)

NewGit(p) ==
    /\ pc[p] = "new_663"
    /\ \E outcome \in GitOutcomes :
        /\ loc' = [loc EXCEPT ![p].git = outcome]
        /\ Do(p, GitInit(fs, tool_dir(args[p]), outcome), "new_667")
    /\ UNCHANGED <<args, fs0, runs, probe, answer>>

\* the ignore-file step left out
NewIgnoreSkipped(p) ==
    /\ pc[p] = "new_667"
    /\ Goto(p, "new_671")
    /\ UNCHANGED <<fs, args, loc, fs0, runs, probe, answer>>

\* (tool_dir / ".gitignore").write_text(GITIGNORE_TEMPLATE)
NewIgnore(p) ==
    /\ pc[p] = "new_667"
    /\ Do(p, WriteText(fs, Child(args[p].name, ".gitignore"), GITIGNORE_TEMPLATE),
          "new_671")
    /\ UNCHANGED <<args, loc, fs0, runs, probe, answer>>

\* create_cli_file, line 571: path.write_text(content)
NewWrite(p) ==
    /\ pc[p] = "new_671"
    /\ Do(p, WriteText(fs, target(args[p]),
                       Render(args[p].name, args[p].description, args[p].default)),
          "new_572")
    /\ UNCHANGED <<args, loc, fs0, runs, probe, answer>>

\* create_cli_file, line 572: make_executable(path)
NewChmod(p) ==
    /\ pc[p] = "new_572"
    /\ Do(p, make_executable(fs, target(args[p])), "new_675")
    /\ UNCHANGED <<args, loc, fs0, runs, probe, answer>>

\* a test with exists() alone, which a dangling symlink passes unseen
SymlinkTakenLive(f, p) == Exists(f, p)

\* line 676 and line 825: symlink.exists() or symlink.is_symlink()
SymlinkTaken(f, p) == Exists(f, p) \/ IsSymlink(f, p)

\* if standalone and symlink: if symlink.exists() or symlink.is_symlink()
NewLinkTest(p) ==
    /\ pc[p] = "new_675"
    /\ IF ~args[p].standalone
       THEN Return(p)
       ELSE Goto(p, IF SymlinkTaken(fs, symlink(args[p])) THEN "new_677" ELSE "new_678")
    /\ UNCHANGED <<fs, args, loc, fs0, runs, probe, answer>>

\* symlink.unlink()
NewUnlink(p) ==
    /\ pc[p] = "new_677"
    /\ Do(p, Unlink(fs, symlink(args[p])), "new_678")
    /\ UNCHANGED <<args, loc, fs0, runs, probe, answer>>

\* symlink.symlink_to(target), then the summary: the command returns
NewSymlink(p) ==
    /\ pc[p] = "new_678"
    /\ LET r == SymlinkTo(fs, symlink(args[p]), target(args[p])) IN
        /\ fs' = r.fs
        /\ IF r.err THEN Fail(p, "crash") ELSE Return(p)
    /\ UNCHANGED <<args, loc, fs0, runs, probe, answer>>

New(p) ==
    \/ NewStart(p)
    \/ NewConflict(p)
    \/ NewCheckTarget(p)
    \/ NewCheckDir(p)
    \/ NewMkdir(p)
    \/ NewManifest(p)
    \/ NewReadme(p)
    \/ NewGit(p)
    \/ NewIgnore(p)
    \/ NewWrite(p)
    \/ NewChmod(p)
    \/ NewLinkTest(p)
    \/ NewUnlink(p)
    \/ NewSymlink(p)

(***************************************************************************)
(* deploy (lines 711-849).                                                 *)
(***************************************************************************)
\* the files a deploy is pointed at: scripts of the current directory, a
\* file of another type, a deployed script itself, and a symlink path
DeployFiles ==
    {CwdPy(NameA), CwdPy(NameB), CwdTxt(NameA), ToolPy(NameA), SymlinkPath(NameA)}
\* --name: absent, empty, or a tool name
NameOptions == {None, Some(<<>>)} \cup {Some(n) : n \in Names}

\* tool_name = name or file.stem (line 749), of the resolved file
tool_name(a, l) == IF Truthy(a.name_opt) THEN a.name_opt.val ELSE Stem(l.file)
\* lines 752-754
deploy_dir(a, l) == ToolDir(tool_name(a, l))
deploy_target(a, l) == ToolPy(tool_name(a, l))
deploy_symlink(a, l) == SymlinkPath(tool_name(a, l))

\* shutil.move(src, dst): os.rename, which replaces dst and does nothing
\* when src and dst are the same file
Move(f, src, dst) ==
    CASE f[src].kind # "file" -> Raise(f)
      [] f[ToolDir(dst.n)].kind # "dir" -> Raise(f)
      [] src = dst -> Ok(f)
      [] OTHER -> Ok([f EXCEPT ![dst] = f[src], ![src] = Absent])

\* shutil.copy2(src, dst): content and mode; SameFileError when src is dst
Copy2(f, src, dst) ==
    CASE f[src].kind # "file" -> Raise(f)
      [] f[ToolDir(dst.n)].kind # "dir" -> Raise(f)
      [] src = dst -> Raise(f)
      [] OTHER -> Ok([f EXCEPT ![dst] = f[src]])

\* a move that copies and leaves the original behind
MoveKeepsSource(f, src, dst, move) ==
    Copy2(f, src, dst)

\* lines 765-770
Transfer(f, src, dst, move) ==
    IF move THEN Move(f, src, dst) ELSE Copy2(f, src, dst)

\* a suffix test that lets every file through
IsScriptAlways(file) == TRUE

\* line 744: file.suffix == ".py"
IsScript(file) == Suffix(file) = ".py"

DeployStart(p) ==
    \E file \in DeployFiles, name_opt \in NameOptions, move \in BOOLEAN,
       force \in BOOLEAN :
        Begin(p, DeployArgs(file, name_opt, move, force), "deploy_739")

\* file = file.resolve(); if not file.exists()
DeployCheckFile(p) ==
    /\ pc[p] = "deploy_739"
    /\ LET file == Resolve(fs, args[p].file) IN
        /\ loc' = [loc EXCEPT ![p].file = file]
        /\ IF ~Exists(fs, file) THEN Fail(p, "InvalidInput") ELSE Goto(p, "deploy_744")
    /\ UNCHANGED <<fs, args, fs0, runs, probe, answer>>

\* if not file.suffix == ".py"
DeployCheckSuffix(p) ==
    /\ pc[p] = "deploy_744"
    /\ IF ~IsScript(loc[p].file)
       THEN Fail(p, "InvalidInput")
       ELSE Goto(p, "deploy_757")
    /\ UNCHANGED <<fs, args, loc, fs0, runs, probe, answer>>

\* if tool_dir.exists() and not force
DeployCheckDir(p) ==
    /\ pc[p] = "deploy_757"
    /\ IF MustNotOverwrite(fs, deploy_dir(args[p], loc[p]), args[p].force)
       THEN Fail(p, "AlreadyExists")
       ELSE Goto(p, "deploy_762")
    /\ UNCHANGED <<fs, args, loc, fs0, runs, probe, answer>>

\* tool_dir.mkdir(parents=True, exist_ok=True)
DeployMkdir(p) ==
    /\ pc[p] = "deploy_762"
    /\ Do(p, Mkdir(fs, deploy_dir(args[p], loc[p])), "deploy_765")
    /\ UNCHANGED <<args, loc, fs0, runs, probe, answer>>

\* shutil.move(str(file), target) or shutil.copy2(file, target)
DeployTransfer(p) ==
    /\ pc[p] = "deploy_765"
    /\ Do(p, Transfer(fs, loc[p].file, deploy_target(args[p], loc[p]), args[p].move),
          "deploy_773")
    /\ UNCHANGED <<args, loc, fs0, runs, probe, answer>>

\* make_executable(target)
DeployChmod(p) ==
    /\ pc[p] = "deploy_773"
    /\ Do(p, make_executable(fs, deploy_target(args[p], loc[p])), "deploy_776")
    /\ UNCHANGED <<args, loc, fs0, runs, probe, answer>>

\* detected_deps = detect_imports(target): read_text raises without a file
DeployDetect(p) ==
    /\ pc[p] = "deploy_776"
    /\ LET t == deploy_target(args[p], loc[p]) IN
        IF Exists(fs, t)
        THEN /\ loc' = [loc EXCEPT ![p].detected_deps = detect_imports(ReadText(fs, t))]
             /\ Goto(p, "deploy_779")
        ELSE /\ Fail(p, "crash")
             /\ UNCHANGED loc
    /\ UNCHANGED <<fs, args, fs0, runs, probe, answer>>

\* lines 779-788: the docstring's first line; any exception leaves the
\* generic description
ExtractDescription(f, t) ==
    IF Exists(f, t) /\ SyntaxOk(ReadText(f, t)) /\ Truthy(DocFirstLine(ReadText(f, t)))
    THEN DocFirstLine(ReadText(f, t)).val
    ELSE DEFAULT_DESCRIPTION

DeployDescription(p) ==
    /\ pc[p] = "deploy_779"
    /\ loc' = [loc EXCEPT ![p].desc = ExtractDescription(fs, deploy_target(args[p], loc[p]))]
    /\ Goto(p, "deploy_789")
    /\ UNCHANGED <<fs, args, fs0, runs, probe, answer>>

\* deps_str = ",".join(sorted(detected_deps)) if detected_deps else None
deps_str(detected) == IF detected # {} THEN Some(Sorted(detected)) ELSE None

\* (tool_dir / "pyproject.toml").write_text(generate_pyproject(...))
DeployManifest(p) ==
    /\ pc[p] = "deploy_789"
    /\ Do(p, WriteText(fs, Child(tool_name(args[p], loc[p]), "pyproject.toml"),
                       generate_pyproject(tool_name(args[p], loc[p]), loc[p].desc,
                                          deps_str(loc[p].detected_deps))),
          "deploy_797")
    /\ UNCHANGED <<args, loc, fs0, runs, probe, answer>>

\* subprocess.run(["python", str(target), "doc"], ...): a file that does
\* not parse cannot print its documentation
DeployDoc(p) ==
    /\ pc[p] = "deploy_797"
    /\ \E outcome \in DocOutcomes :
        /\ outcome = "ok" =>
              /\ Exists(fs, deploy_target(args[p], loc[p]))
              /\ SyntaxOk(ReadText(fs, deploy_target(args[p], loc[p])))
        /\ loc' = [loc EXCEPT ![p].doc = outcome]
    /\ Goto(p, "deploy_803")
    /\ UNCHANGED <<fs, args, fs0, runs, probe, answer>>

\* lines 803-814: the output of the doc command is the README when the
\* command exited with status 0 and printed something; otherwise, and
\* when run() raised, the minimal README
WriteReadme(f, t, name, outcome) ==
    IF outcome = "ok"
    THEN WriteText(f, Child(name, "README.md"), DocOutput(ReadText(f, t)))
    ELSE WriteText(f, Child(name, "README.md"), MinimalReadme(name))

DeployReadme(p) ==
    /\ pc[p] = "deploy_803"
    /\ Do(p, WriteReadme(fs, deploy_target(args[p], loc[p]),
                         tool_name(args[p], loc[p]), loc[p].doc),
          "deploy_817")
    /\ UNCHANGED <<args, loc, fs0, runs, probe, answer>>

\* subprocess.run(["git", "init"], cwd=tool_dir, capture_output=True)
DeployGit(p) ==
    /\ pc[p] = "deploy_817"
    /\ \E outcome \in GitOutcomes :
        /\ loc' = [loc EXCEPT ![p].git = outcome]
        /\ Do(p, GitInit(fs, deploy_dir(args[p], loc[p]), outcome), "deploy_821")
    /\ UNCHANGED <<args, fs0, runs, probe, answer>>

\* (tool_dir / ".gitignore").write_text(GITIGNORE_TEMPLATE)
DeployIgnore(p) ==
    /\ pc[p] = "deploy_821"
    /\ Do(p, WriteText(fs, Child(tool_name(args[p], loc[p]), ".gitignore"),
                       GITIGNORE_TEMPLATE),
          "deploy_825")
    /\ UNCHANGED <<args, loc, fs0, runs, probe, answer>>

\* if symlink.exists() or symlink.is_symlink()
DeployLinkTest(p) ==
    /\ pc[p] = "deploy_825"
    /\ Goto(p, IF SymlinkTaken(fs, deploy_symlink(args[p], loc[p]))
               THEN "deploy_826" ELSE "deploy_827")
    /\ UNCHANGED <<fs, args, loc, fs0, runs, probe, answer>>

\* symlink.unlink()
DeployUnlink(p) ==
    /\ pc[p] = "deploy_826"
    /\ Do(p, Unlink(fs, deploy_symlink(args[p], loc[p])), "deploy_827")
    /\ UNCHANGED <<args, loc, fs0, runs, probe, answer>>

\* symlink.symlink_to(target), then the summary: the command returns
DeploySymlink(p) ==
    /\ pc[p] = "deploy_827"
    /\ LET r == SymlinkTo(fs, deploy_symlink(args[p], loc[p]),
                          deploy_target(args[p], loc[p])) IN
        /\ fs' = r.fs
        /\ IF r.err THEN Fail(p, "crash") ELSE Return(p)
    /\ UNCHANGED <<args, loc, fs0, runs, probe, answer>>

Deploy(p) ==
    \/ DeployStart(p)
    \/ DeployCheckFile(p)
    \/ DeployCheckSuffix(p)
    \/ DeployCheckDir(p)
    \/ DeployMkdir(p)
    \/ DeployTransfer(p)
    \/ DeployChmod(p)
    \/ DeployDetect(p)
    \/ DeployDescription(p)
    \/ DeployManifest(p)
    \/ DeployDoc(p)
    \/ DeployReadme(p)
    \/ DeployGit(p)
    \/ DeployIgnore(p)
    \/ DeployLinkTest(p)
    \/ DeployUnlink(p)
    \/ DeploySymlink(p)

Next == \E p \in Sequential : New(p) \/ Deploy(p)

Spec == Init /\ [][Next]_vars

(***************************************************************************)
(* A standalone `new` and the same command given again afterwards, with    *)
(* or without --force: the first process in slot 1, each later one, once   *)
(* the one before it has ended, in slot 2.                                 *)
(***************************************************************************)
RetryFirst ==
    /\ runs = 0
    /\ \E name \in Names, description \in Descriptions, default \in Defaults,
          deps \in DepsInputs, force \in BOOLEAN :
         Launch(1, NewArgs(name, description, default, deps, FALSE, TRUE, force),
                "new_619")

RetryLater ==
    /\ runs >= 1 /\ runs <= MaxRetries
    /\ pc[1] = "done"
    /\ \E force \in BOOLEAN :
         Launch(2, [args[1] EXCEPT !.force = force], "new_619")

NewSteps(p) ==
    \/ NewConflict(p)
    \/ NewCheckTarget(p)
    \/ NewCheckDir(p)
    \/ NewMkdir(p)
    \/ NewManifest(p)
    \/ NewReadme(p)
    \/ NewGit(p)
    \/ NewIgnore(p)
    \/ NewWrite(p)
    \/ NewChmod(p)
    \/ NewLinkTest(p)
    \/ NewUnlink(p)
    \/ NewSymlink(p)

RetryNext == RetryFirst \/ RetryLater \/ \E p \in Procs : NewSteps(p)

RetrySpec == Init /\ [][RetryNext]_vars

(***************************************************************************)
(* Two processes of standalone `new` for the same name, started together   *)
(* and running with their statements interleaved in any way.               *)
(***************************************************************************)
ConcStart ==
    /\ runs = 0
    /\ \E name \in Names, d1 \in Descriptions, d2 \in Descriptions,
          f1 \in BOOLEAN, f2 \in BOOLEAN :
         args' = [args EXCEPT ![1] = NewArgs(name, d1, None, None, FALSE, TRUE, f1),
                              ![2] = NewArgs(name, d2, None, None, FALSE, TRUE, f2)]
    /\ runs' = 2
    /\ pc' = [p \in Procs |-> "new_619"]
    /\ fs0' = [p \in Procs |-> fs]
    /\ UNCHANGED <<fs, exit, loc, probe, answer>>

ConcNext == ConcStart \/ \E p \in Procs : NewSteps(p)

ConcSpec == Init /\ [][ConcNext]_vars

(***************************************************************************)
(* The pure functions on their own: detect_imports over every source of    *)
(* up to MaxNodes import statements, and the generated script's dispatch   *)
(* over every command line of up to MaxArgs arguments.  The invocation     *)
(* state stays idle.                                                       *)
(***************************************************************************)
PureInit ==
    /\ fs = EmptyFs
    /\ pc = [p \in Procs |-> "idle"]
    /\ args = [p \in Procs |-> NoArgs]
    /\ exit = [p \in Procs |-> "none"]
    /\ loc = [p \in Procs |-> NoLocals]
    /\ fs0 = [p \in Procs |-> EmptyFs]
    /\ runs = 0
    /\ answer = NoContent

DottedNames ==
    {<<"os">>, <<"os", "path">>, <<"httpx">>, <<"bs4">>, <<"rich", "console">>,
     <<"typer">>, <<"xml", "etree">>}
SniffNodes ==
    {Import(<<d>>) : d \in DottedNames}
        \cup {Import(<< <<"os">>, <<"httpx">> >>), Import(<< <<"doc2md">>, <<"numpy">> >>)}
        \cup {ImportFrom(Some(d)) : d \in DottedNames}
        \cup {ImportFrom(None), OtherNode}
SniffSources ==
    {Source(ok, None, nodes) :
        ok \in BOOLEAN,
        nodes \in UNION {[1..k -> SniffNodes] : k \in 0..MaxNodes}}

SniffInit == PureInit /\ probe \in SniffSources

\* detect_imports is called on the file
SniffRun ==
    /\ answer = NoContent
    /\ answer' = [of |-> probe, imports |-> detect_imports(probe)]
    /\ UNCHANGED <<fs, pc, args, exit, loc, fs0, runs, probe>>

SniffSpec == SniffInit /\ [][SniffRun]_vars

\* sys.argv[0] of a generated script, and the arguments typed after it
Prog == <<"p">>
Tokens == {Run, Doc, ExampleCmd, HelpLong, HelpShort, <<"x">>, <<"-", "x">>}
DispatchProbes ==
    {[script |-> Render(name, DEFAULT_DESCRIPTION, default), argv |-> <<Prog>> \o typed] :
        name \in Names,
        default \in Defaults \cup {Some(<<>>), Some(Doc)},
        typed \in UNION {[1..k -> Tokens] : k \in 0..MaxArgs}}

DispatchInit == PureInit /\ probe \in DispatchProbes

\* the generated script is started: its main block runs up to app()
DispatchRun ==
    /\ answer = NoContent
    /\ answer' = [of |-> probe, argv |-> Main(probe.script, probe.argv)]
    /\ UNCHANGED <<fs, pc, args, exit, loc, fs0, runs, probe>>

DispatchSpec == DispatchInit /\ [][DispatchRun]_vars

(***************************************************************************)
(* Properties of one invocation.  They are stated over the filesystem the  *)
(* invocation found (fs0) and what it was asked (args); the resolved       *)
(* deploy paths are recomputed here from those two alone.                  *)
(***************************************************************************)
IsNew(p) == args[p].cmd = "new"
IsDeploy(p) == args[p].cmd = "deploy"
Finished(p) == pc[p] = "done"
BothTiers(p) == args[p].pai /\ args[p].standalone

\* new: the target file, or for the standalone tier the container, existed
NewDestinationExisted(p) ==
    \/ Exists(fs0[p], target(args[p]))
    \/ args[p].standalone /\ Exists(fs0[p], ToolDir(args[p].name))

\* deploy: the source as given, the name it deploys under, its paths
SourceOf(p) == Resolve(fs0[p], args[p].file)
NameOf(p) ==
    IF args[p].name_opt.some /\ args[p].name_opt.val # <<>>
    THEN args[p].name_opt.val ELSE SourceOf(p).n
SourceValid(p) ==
    /\ fs0[p][SourceOf(p)].kind # "absent"
    /\ SourceOf(p).leaf = ".py"
DeployDestinationExisted(p) == fs0[p][ToolDir(NameOf(p))].kind # "absent"
\* the deploy got past validation and the existence check
DeployAccepted(p) ==
    IsDeploy(p) /\ Finished(p) /\ exit[p] \notin {"InvalidInput", "AlreadyExists"}

\* C1: `new` with both --pai and --standalone ends with the ConflictingMode
\* exit, and at no moment of the invocation does the filesystem differ from
\* the one it found: no statement after the conflict test is reached.
C1_ConflictingModeWritesNothing ==
    \A p \in Procs :
        IsNew(p) /\ BothTiers(p) =>
            /\ fs = fs0[p]
            /\ pc[p] \in {"new_619", "done"}
            /\ Finished(p) => exit[p] = "ConflictingMode"

\* a conflicting `new --force` for a deployed tool has ended and the
\* deployed layout is as it was
C1_Witness ==
    /\ IsNew(1) /\ BothTiers(1) /\ args[1].force /\ Finished(1)
    /\ exit[1] = "ConflictingMode"
    /\ fs0[1] = DeployedFs /\ fs = DeployedFs /\ args[1].name = NameA

\* C2: without the overwrite flag, a `new` whose target file (or, for the
\* standalone tier, container directory) exists and a `deploy` of a valid
\* source whose container directory exists end with the AlreadyExists exit
\* and never write: the filesystem stays the one the invocation found.
C2_ExistingDestinationUntouched ==
    \A p \in Procs :
        \/ IsNew(p) /\ ~BothTiers(p) /\ ~args[p].force /\ NewDestinationExisted(p)
        \/ IsDeploy(p) /\ SourceValid(p) /\ ~args[p].force /\ DeployDestinationExisted(p)
        => /\ fs = fs0[p]
           /\ Finished(p) => exit[p] = "AlreadyExists"

\* a standalone `new` was turned away by a container that holds no script
C2_Witness ==
    /\ IsNew(1) /\ args[1].standalone /\ ~args[1].pai /\ ~args[1].force
    /\ ~Exists(fs0[1], target(args[1]))
    /\ Exists(fs0[1], ToolDir(args[1].name))
    /\ Finished(1) /\ exit[1] = "AlreadyExists"

\* C3: `new --force` in any tier over an existing target file succeeds and
\* leaves the target holding exactly the script rendered from the current
\* name, description and default command, executable.
C3_ForceReplacesTarget ==
    \A p \in Procs :
        /\ IsNew(p) /\ ~BothTiers(p) /\ args[p].force /\ Finished(p)
        /\ fs0[p][target(args[p])].kind = "file"
        => /\ exit[p] = "ok"
           /\ fs[target(args[p])] =
                File(Render(args[p].name, args[p].description, args[p].default), TRUE)

C5_InvalidSourceWritesNothing ==
    \A p \in Procs :
        IsDeploy(p) /\ ~SourceValid(p) =>
            /\ fs = fs0[p]
            /\ Finished(p) => exit[p] = "InvalidInput"

\* an existing file of another type was refused, move and force given
C5_Witness ==
    /\ IsDeploy(1) /\ Finished(1) /\ exit[1] = "InvalidInput"
    /\ args[1].file = CwdTxt(NameA) /\ fs0[1][CwdTxt(NameA)].kind = "file"
    /\ args[1].move /\ args[1].force

\* C6: whichever way `git init` fails (a non-zero exit, or no git binary),
\* the invocation does not fail for it: it ends with exit status 0, having
\* written the ignore-file, the script and the symlink.
C6_GitFailureIgnored ==
    \A p \in Procs :
        loc[p].git \in {"nonzero", "missing"} =>
            /\ exit[p] # "crash"
            /\ Finished(p) =>
                LET n == IF IsNew(p) THEN args[p].name ELSE NameOf(p) IN
                /\ exit[p] = "ok"
                /\ fs[Child(n, ".gitignore")].kind = "file"
                /\ fs[ToolPy(n)].kind = "file"
                /\ fs[SymlinkPath(n)] = Symlink(ToolPy(n))

\* one of the three soft failures has happened in a deploy: the doc command
\* failed, printed nothing or could not be run, or the deployed file, by now
\* read for its imports and its docstring, does not parse
SoftFailure(p) ==
    /\ IsDeploy(p)
    /\ \/ loc[p].doc \in {"nonzero", "blank", "missing"}
       \/ loc[p].desc # <<>> /\ ~SyntaxOk(fs0[p][SourceOf(p)].content)

\* C7: a deploy in which a soft failure happened is not aborted: a file
\* that does not parse gives no dependencies and the generic description,
\* a failed doc command gives the minimal README, and the deploy ends with
\* exit status 0 with manifest, README, ignore-file and symlink written.
C7_SoftFailuresRecovered ==
    \A p \in Procs :
        SoftFailure(p) =>
            LET n == NameOf(p)
                c == fs0[p][SourceOf(p)].content
            IN  /\ exit[p] # "crash"
                /\ ~SyntaxOk(c) => /\ loc[p].detected_deps = {}
                                   /\ loc[p].desc = DEFAULT_DESCRIPTION
                /\ loc[p].doc # "none" /\ pc[p] # "deploy_803" =>
                      fs[Child(n, "README.md")].content = MinimalReadme(n)
                /\ Finished(p) =>
                      /\ exit[p] = "ok"
                      /\ fs[Child(n, "pyproject.toml")].kind = "file"
                      /\ fs[Child(n, "README.md")].kind = "file"
                      /\ fs[Child(n, ".gitignore")].kind = "file"
                      /\ fs[SymlinkPath(n)] = Symlink(ToolPy(n))

\* the standalone invocations, and the symlink path each one works on
MakesSymlink(p) == (IsNew(p) /\ args[p].standalone /\ ~args[p].pai) \/ IsDeploy(p)
LinkOf(p) == SymlinkPath(IF IsNew(p) THEN args[p].name ELSE NameOf(p))
TargetOf(p) == ToolPy(IF IsNew(p) THEN args[p].name ELSE NameOf(p))

\* C8: a standalone `new` or a `deploy` that succeeds leaves at
\* SCRIPTS_DIR/{name} a symlink to SCRIPTS_DIR/dev.{name}/{name}.py,
\* whatever was there (nothing, a regular file, a live or a dangling
\* symlink): what was there is removed first (unlink is reached exactly
\* with an entry in place), and the symlink is created on a free path.
C8_SymlinkReplaced ==
    \A p \in Procs :
        MakesSymlink(p) =>
            /\ pc[p] \in {"new_677", "deploy_826"} => fs[LinkOf(p)].kind \in {"file", "link"}
            /\ pc[p] \in {"new_678", "deploy_827"} => fs[LinkOf(p)].kind = "absent"
            /\ Finished(p) /\ exit[p] = "ok" => fs[LinkOf(p)] = Symlink(TargetOf(p))

\* a dangling symlink that pointed elsewhere was replaced by a `new`
C8_Witness ==
    /\ IsNew(1) /\ MakesSymlink(1) /\ Finished(1) /\ exit[1] = "ok"
    /\ fs0[1][LinkOf(1)].kind = "link"
    /\ ~Exists(fs0[1], LinkOf(1))
    /\ fs0[1][LinkOf(1)].to # TargetOf(1)
    /\ fs[LinkOf(1)] = Symlink(TargetOf(1))

\* the dotted module names a source names in its import statements
NamedModules(src) ==
    LET nodes == {src.imports[i] : i \in DOMAIN src.imports} IN
    UNION {{nd.names[j] : j \in DOMAIN nd.names} : nd \in {x \in nodes : x.node = "Import"}}
        \cup {nd.module.val : nd \in {x \in nodes : x.node = "ImportFrom" /\ x.module.some}}

\* C9: for a source that parses, detect_imports returns exactly the first
\* components of the modules named by import and from-import statements
\* that are neither standard-library names nor base dependencies; so it
\* never holds such a name, and for os, httpx and bs4 it is {httpx, bs4}.
C9_SnifferIsSetDifference ==
    answer # NoContent /\ answer.of.syntax_ok =>
        LET tops == {m[1] : m \in NamedModules(answer.of)} IN
        /\ answer.imports = {t \in tops : t \notin STDLIB_MODULES /\ t \notin BASE_DEPS}
        /\ answer.imports \cap (STDLIB_MODULES \cup BASE_DEPS) = {}
        /\ tops = {"os", "httpx", "bs4"} => answer.imports = {"httpx", "bs4"}

\* `import os, httpx` and `from bs4 import ...` were sniffed
C9_Witness ==
    /\ answer # NoContent
    /\ answer.of = Source(TRUE, None,
                          << Import(<< <<"os">>, <<"httpx">> >>), ImportFrom(Some(<<"bs4">>)) >>)
    /\ answer.imports = {"httpx", "bs4"}

\* C10: a script rendered with a default command puts the default command
\* in front of the typed arguments when there is none or the first is
\* neither a registered command (the default command, doc) nor --help or
\* -h, and leaves the command line alone otherwise; a script rendered
\* without one never changes the command line and shows the help when no
\* subcommand is typed.
C10_DispatchRule ==
    answer # NoContent =>
        LET script == answer.of.script
            typed == Tail(answer.of.argv)
            registered == {script.default_cmd, Doc}
        IN  IF script.template = "SKELETON_WITH_DEFAULT"
            THEN /\ script.default_cmd # <<>>
                 /\ IF typed = <<>> \/ typed[1] \notin registered \cup {HelpLong, HelpShort}
                    THEN answer.argv = <<Prog, script.default_cmd>> \o typed
                    ELSE answer.argv = answer.of.argv
            ELSE /\ answer.argv = answer.of.argv
                 /\ script.no_args_is_help

\* an unrecognized first argument was handed to the default command
C10_Witness ==
    /\ answer # NoContent
    /\ answer.of.script.template = "SKELETON_WITH_DEFAULT"
    /\ answer.of.argv = <<Prog, <<"x">>, HelpLong>>
    /\ answer.argv = <<Prog, Run, <<"x">>, HelpLong>>

\* the statements of a standalone `new` in program order, and the one path
\* each of them may change
NewOrder ==
    <<"new_619", "new_641", "new_647", "new_651", "new_654", "new_659", "new_663",
      "new_667", "new_671", "new_572", "new_675", "new_677", "new_678", "done">>
Rank(label) == CHOOSE i \in 1..Len(NewOrder) : NewOrder[i] = label
EffectPath(a, label) ==
    CASE label = "new_651" -> {tool_dir(a)}
      [] label = "new_654" -> {Child(a.name, "pyproject.toml")}
      [] label = "new_659" -> {Child(a.name, "README.md")}
      [] label = "new_663" -> {Child(a.name, ".git")}
      [] label = "new_667" -> {Child(a.name, ".gitignore")}
      [] label \in {"new_671", "new_572"} -> {target(a)}
      [] label \in {"new_677", "new_678"} -> {symlink(a)}
      [] OTHER -> {}
StandaloneNew(p) == IsNew(p) /\ args[p].standalone /\ ~args[p].pai

\* what is on disk of a standalone `new` that has come as far as the script
\* or the symlink
ScriptAfterLayout(p) ==
    LET a == args[p] IN
    /\ fs[symlink(a)] = Symlink(target(a)) /\ fs0[p][symlink(a)] # Symlink(target(a))
         => fs[target(a)] = File(Render(a.name, a.description, a.default), TRUE)
    /\ fs[target(a)] # fs0[p][target(a)]
         => /\ fs[tool_dir(a)].kind = "dir"
            /\ fs[Child(a.name, "pyproject.toml")].content =
                   generate_pyproject(a.name, a.description, a.deps)
            /\ fs[Child(a.name, "README.md")].content =
                   README_TEMPLATE(a.name, a.description)
            /\ fs[Child(a.name, ".gitignore")].content = GITIGNORE_TEMPLATE

\* one step of a standalone `new`: it changes nothing during the checks and
\* otherwise at most the path of its statement, goes on to the next
\* statement (past the unlink when the symlink path is free) or ends, ends
\* with exit status 0 only after the symlink, and leaves the disk as above
OrderedStep(p) ==
    LET a == args[p] IN
    /\ {q \in Paths : fs'[q] # fs[q]} \subseteq EffectPath(a, pc[p])
    /\ pc'[p] # pc[p] =>
          \/ pc'[p] = "done" /\ (exit'[p] = "ok" => pc[p] = "new_678")
          \/ pc'[p] # "done" /\ Rank(pc'[p]) = Rank(pc[p]) + 1
          \/ pc[p] = "new_675" /\ pc'[p] = "new_678"
    /\ ScriptAfterLayout(p)'

\* C11: a standalone `new` changes the filesystem only after its existence
\* checks and in the order container directory, manifest, README, git init,
\* ignore-file, script and its executable bit, symlink; a symlink it made
\* is there only with the script written, and a script it wrote only with
\* manifest, README and ignore-file written.
C11_SideEffectOrder ==
    [][\A p \in Procs : StandaloneNew(p) /\ pc[p] \notin {"idle", "done"} => OrderedStep(p)]_vars

\* a standalone `new` on a free name went through every step
C11_Witness ==
    /\ StandaloneNew(1) /\ pc[1] = "done" /\ exit[1] = "ok"
    /\ fs0[1][tool_dir(args[1])].kind = "absent"
    /\ fs0[1][symlink(args[1])].kind = "absent"
    /\ fs[symlink(args[1])] = Symlink(target(args[1]))
    /\ fs[Child(args[1].name, ".gitignore")].kind = "file"

\* the first `new` was standalone and was ended by an exception after the
\* README and before the script: git could not be started
FailedMidway(p) == StandaloneNew(p) /\ exit[p] = "crash" /\ loc[p].git = "missing"

\* the standalone layout of command line a is complete
LayoutComplete(a) ==
    /\ fs[tool_dir(a)].kind = "dir"
    /\ fs[Child(a.name, "pyproject.toml")].content =
           generate_pyproject(a.name, a.description, a.deps)
    /\ fs[Child(a.name, "README.md")].content = README_TEMPLATE(a.name, a.description)
    /\ fs[Child(a.name, ".gitignore")].content = GITIGNORE_TEMPLATE
    /\ fs[target(a)] = File(Render(a.name, a.description, a.default), TRUE)
    /\ fs[symlink(a)] = Symlink(target(a))

\* C12: nothing is rolled back.  After a standalone `new` that failed
\* between the README and the script, the container directory, manifest
\* and README it wrote are in place and the script is as it was before
\* (absent on a fresh name); the same `new` given again without --force
\* ends with AlreadyExists and writes nothing, and one that ends with exit
\* status 0 was given --force and leaves the complete layout.
C12_NoRollback ==
    FailedMidway(1) =>
        LET a == args[1] IN
        /\ runs = 1 =>
              /\ fs[tool_dir(a)].kind = "dir"
              /\ fs[Child(a.name, "pyproject.toml")].content =
                     generate_pyproject(a.name, a.description, a.deps)
              /\ fs[Child(a.name, "README.md")].content =
                     README_TEMPLATE(a.name, a.description)
              /\ fs[target(a)] = fs0[1][target(a)]
              /\ fs[Child(a.name, ".gitignore")] = fs0[1][Child(a.name, ".gitignore")]
        /\ pc[2] = "done" /\ ~args[2].force =>
              exit[2] = "AlreadyExists" /\ fs = fs0[2]
        /\ pc[2] = "done" /\ exit[2] = "ok" =>
              args[2].force /\ LayoutComplete(args[2])

\* a `new` on a free name failed at git init, and the same command with
\* --force then completed the layout
C12_Witness ==
    /\ FailedMidway(1)
    /\ fs0[1][tool_dir(args[1])].kind = "absent"
    /\ fs0[2][target(args[1])].kind = "absent"
    /\ fs0[2][Child(args[1].name, "README.md")].kind = "file"
    /\ pc[2] = "done" /\ exit[2] = "ok" /\ args[2].force
    /\ LayoutComplete(args[2])

\* two standalone `new` for one name run side by side, both with --force
\* and on a machine where git can be started
RacingNews ==
    /\ \A p \in Procs : StandaloneNew(p) /\ args[p].force /\ loc[p].git # "missing"
    /\ args[1].name = args[2].name

\* C13: of two standalone `new` racing for one destination each runs to
\* its end without an error, whatever the interleaving, and when both have
\* ended the target holds the script one of them wrote and the symlink
\* points at the target.
C13_RaceCompletes ==
    RacingNews =>
        /\ \A p \in Procs : pc[p] = "done" => exit[p] = "ok"
        /\ (\A p \in Procs : pc[p] = "done") =>
              /\ \E p \in Procs :
                    fs[target(args[p])] =
                        File(Render(args[p].name, args[p].description, args[p].default),
                             TRUE)
              /\ fs[symlink(args[1])] = Symlink(target(args[1]))

\* the entries invocation p found when it started and has changed or
\* removed since, the source of a `deploy --move` apart
Disturbed(p) ==
    {q \in Paths :
        /\ fs0[p][q].kind # "absent"
        /\ fs[q] # fs0[p][q]
        /\ ~(IsDeploy(p) /\ args[p].move /\ q = SourceOf(p))}

\* C14 as stated: a `new` or `deploy` without --force changes or removes no
\* entry that was there before it started, the source of a `deploy --move`
\* apart: every path it writes was absent, the symlink path included.
C14_FrameWithoutForce ==
    \A p \in Procs :
        (IsNew(p) \/ IsDeploy(p)) /\ ~args[p].force => Disturbed(p) = {}

\* C14 amended: the same, except for the entry at the symlink path of a
\* standalone `new` or a `deploy`, which is replaced whatever it was.
C14_FrameExceptSymlink ==
    \A p \in Procs :
        (IsNew(p) \/ IsDeploy(p)) /\ ~args[p].force =>
            Disturbed(p) \subseteq (IF MakesSymlink(p) THEN {LinkOf(p)} ELSE {})

\* without --force an entry at the symlink path was replaced while another
\* prior entry was left as it was
C14_Witness ==
    /\ MakesSymlink(1) /\ ~args[1].force
    /\ pc[1] = "done" /\ exit[1] = "ok"
    /\ Disturbed(1) = {LinkOf(1)}
    /\ fs0[1][LinkOf(1)].kind = "file"
    /\ fs[LinkOf(1)] = Symlink(TargetOf(1))
    /\ \E q \in Paths \ {LinkOf(1)} : fs0[1][q].kind = "file" /\ fs[q] = fs0[1][q]

====
